---- MODULE Spec2Model ----
(***************************************************************************)
(* verification/verify_game.py: a Playwright script that walks the Recalla *)
(* UI (home page, start flow, topic list, game view) and saves one         *)
(* screenshot.  The script is a straight line of library calls inside      *)
(* `with sync_playwright() as p:`; the model has one action per call, the  *)
(* application under test as the input of a run, and the file system and   *)
(* the exit status of earlier runs as the state that survives a run.       *)
(*                                                                         *)
(* What the library calls do is taken from Playwright's documented         *)
(* behaviour:                                                              *)
(*   - page.goto raises when the server cannot be reached;                 *)
(*   - wait_for_selector raises TimeoutError when the element has not      *)
(*     appeared within the timeout (30 s unless given);                    *)
(*   - Locator.count() never raises; Locator.click() is strict: it raises  *)
(*     when the locator matches more than one element, and times out when  *)
(*     it matches none;                                                    *)
(*   - Locator.first narrows a locator to its first match in document      *)
(*     order;                                                              *)
(*   - page.screenshot(path=...) captures the viewport unless              *)
(*     full_page=True is passed, and replaces the file at path;            *)
(*   - leaving the sync_playwright() block stops the driver, which ends    *)
(*     every browser it launched.                                          *)
(* The host is taken to work (chromium launches, the file can be written), *)
(* and one run sees one application: what it serves does not change while  *)
(* the run lasts.                                                          *)
(***************************************************************************)
EXTENDS Integers, Sequences, FiniteSets, TLC

\* ------------------------------------------------------------------ bounds
MaxRuns    == 2     \* invocations of the script in one behaviour
MaxStart   == 2     \* elements of the home page with the text "Start Learning"
MaxButtons == 3     \* buttons of the topic view, in document order
MaxDelay   == 1     \* seconds an element that does appear may take to appear

\* ------------------------------------------------------- program constants
SettlePause    == 2      \* time.sleep(2)
TopicsTimeout  == 10     \* timeout=10000 (ms) of the wait for "German Words"
GridTimeout    == 10     \* timeout=10000 (ms) of the wait for ".grid"
DefaultTimeout == 30     \* no timeout given: the library's 30 s

HomeUrl        == "http://localhost:5173/Recalla/"
WelcomeUrl     == "http://localhost:5173/Recalla/welcome"
ScreenshotPath == "verification/game_screenshot.png"

VARIABLES
    run,        \* number of the current (or last) invocation, 0 before the first
    pc,         \* position of the script
    app,        \* the application under test, as this run sees it
    browser,    \* "none" | "held" | "released": the chromium process of this run
    log,        \* the library calls this run has made, in order
    out,        \* the lines this run has printed
    now,        \* seconds spent waiting or sleeping in this run
    err,        \* the uncaught error of this run, "none" if none
    fs,         \* the files on disk: a set of [path, writer, full_page]
    fs0,        \* the files on disk when this run started
    results     \* how the finished invocations ended, in order

vars == <<run, pc, app, browser, log, out, now, err, fs, fs0, results>>

\* ---------------------------------------------------- application under test
Labels == {"Play", "Edit"}

ButtonRows == UNION {[1..n -> Labels] : n \in 0..MaxButtons}

\* served: the dev server answers; recalla: the home page shows "Recalla";
\* startCount: elements with the text "Start Learning"; german: the view
\* reached after the start step shows "German Words"; buttons: the accessible
\* names of the buttons of that view, in document order; grid: the view
\* reached after Play shows a ".grid" element.
\* An application that is not served shows nothing.
NoApp ==
    [served |-> FALSE, recalla |-> FALSE, startCount |-> 0,
     german |-> FALSE, buttons |-> <<>>, grid |-> FALSE]

Apps ==
    {a \in [served : BOOLEAN, recalla : BOOLEAN, startCount : 0..MaxStart,
            german : BOOLEAN, buttons : ButtonRows, grid : BOOLEAN] :
        ~a.served => a = NoApp}

\* ------------------------------------------------------------ library model
\* A locator is the sequence of the elements it matches, in document order.
GetByText(n) == [i \in 1..n |-> i]

GetByRole(buttons, name) ==
    LET F[i \in 0..Len(buttons)] ==
            IF i = 0 THEN <<>>
            ELSE IF buttons[i] = name THEN Append(F[i - 1], i) ELSE F[i - 1]
    IN  F[Len(buttons)]

Count(loc) == Len(loc)

First_Last(loc) == IF loc = <<>> THEN <<>> ELSE <<loc[Len(loc)]>>

First(loc) == IF loc = <<>> THEN <<>> ELSE <<loc[1]>>

\* Locator.click(): the error it raises, "none" when it clicks.
ClickError(loc) ==
    IF Len(loc) = 0 THEN "TimeoutError"
    ELSE IF Len(loc) > 1 THEN "StrictModeViolation"
    ELSE "none"

Entry(op, arg, n, ok) == [op |-> op, arg |-> arg, n |-> n, ok |-> ok, t |-> now]

\* Writing a file replaces the file of that path.
WriteFile(files, f) == {g \in files : g.path # f.path} \cup {f}

\* An uncaught error leaves the with block.
Raise(e) == err' = e /\ pc' = "with_exit"

\* --------------------------------------------------------------- the script
Init ==
    /\ run = 0
    /\ pc = "idle"
    /\ app = NoApp
    /\ browser = "none"
    /\ log = <<>>
    /\ out = <<>>
    /\ now = 0
    /\ err = "none"
    /\ fs = {}
    /\ fs0 = {}
    /\ results = <<>>

\* python verify_game.py: a new process, against whatever is served now.
StartRun ==
    /\ pc \in {"idle", "done", "failed"}
    /\ run < MaxRuns
    /\ run' = run + 1
    /\ \E a \in Apps : app' = a
    /\ pc' = "launch"
    /\ browser' = "none"
    /\ log' = <<>>
    /\ out' = <<>>
    /\ now' = 0
    /\ err' = "none"
    /\ fs0' = fs
    /\ UNCHANGED <<fs, results>>

\* browser = p.chromium.launch(); page = browser.new_page()
Launch ==
    /\ pc = "launch"
    /\ browser' = "held"
    /\ pc' = "goto_home"
    /\ UNCHANGED <<run, app, log, out, now, err, fs, fs0, results>>

\* print(...); page.goto(root)
GotoHome ==
    /\ pc = "goto_home"
    /\ out' = Append(out, "Navigating to home page...")
    /\ log' = Append(log, Entry("goto", HomeUrl, 0, app.served))
    /\ IF app.served
         THEN pc' = "wait_recalla" /\ err' = err
         ELSE Raise("Error")
    /\ UNCHANGED <<run, app, browser, now, fs, fs0, results>>

\* page.wait_for_selector("text=Recalla")
WaitRecalla ==
    /\ pc = "wait_recalla"
    /\ log' = Append(log, Entry("wait_for_selector", "text=Recalla", 0, app.recalla))
    /\ IF app.recalla
         THEN /\ \E d \in 0..MaxDelay : now' = now + d
              /\ pc' = "start_learning"
              /\ err' = err
         ELSE /\ now' = now + DefaultTimeout
              /\ Raise("TimeoutError")
    /\ UNCHANGED <<run, app, browser, out, fs, fs0, results>>

\* start_btn = page.get_by_text("Start Learning"); click it if count() > 0,
\* go to /welcome otherwise.
StartLearning_NoFallback ==
    /\ pc = "start_learning"
    /\ LET start_btn == GetByText(app.startCount)
           e == ClickError(start_btn)
       IN  /\ out' = Append(out, "Clicking Start Learning...")
           /\ log' = Append(log, Entry("click", "Start Learning",
                                       IF e = "none" THEN start_btn[1] ELSE 0,
                                       e = "none"))
           /\ IF e = "none"
                THEN pc' = "wait_german" /\ err' = err
                ELSE Raise(e)
    /\ UNCHANGED <<run, app, browser, now, fs, fs0, results>>

StartLearning ==
    /\ pc = "start_learning"
    /\ LET start_btn == GetByText(app.startCount)
           e == ClickError(start_btn)
       IN  IF Count(start_btn) > 0
             THEN /\ out' = Append(out, "Clicking Start Learning...")
                  /\ log' = Append(log, Entry("click", "Start Learning",
                                              IF e = "none" THEN start_btn[1] ELSE 0,
                                              e = "none"))
                  /\ IF e = "none"
                       THEN pc' = "wait_german" /\ err' = err
                       ELSE Raise(e)
             ELSE /\ out' = out \o <<"Clicking Start Learning...",
                             "Start button not found, navigating directly to /welcome">>
                  /\ log' = Append(log, Entry("goto", WelcomeUrl, 0, app.served))
                  /\ IF app.served
                       THEN pc' = "wait_german" /\ err' = err
                       ELSE Raise("Error")
    /\ UNCHANGED <<run, app, browser, now, fs, fs0, results>>

\* print(...); page.wait_for_selector("text=German Words", timeout=10000)
WaitGerman ==
    /\ pc = "wait_german"
    /\ out' = Append(out, "Waiting for topics...")
    /\ log' = Append(log, Entry("wait_for_selector", "text=German Words", 0, app.german))
    /\ IF app.german
         THEN /\ \E d \in 0..MaxDelay : now' = now + d
              /\ pc' = "click_play"
              /\ err' = err
         ELSE /\ now' = now + TopicsTimeout
              /\ Raise("TimeoutError")
    /\ UNCHANGED <<run, app, browser, fs, fs0, results>>

\* print(...); play_btn = page.get_by_role("button", name="Play").first;
\* play_btn.click()
ClickPlay ==
    /\ pc = "click_play"
    /\ LET play_btn == First(GetByRole(app.buttons, "Play"))
           e == ClickError(play_btn)
       IN  /\ out' = Append(out, "Clicking Play...")
           /\ log' = Append(log, Entry("click", "Play",
                                       IF e = "none" THEN play_btn[1] ELSE 0,
                                       e = "none"))
           /\ IF e = "none"
                THEN pc' = "wait_grid" /\ err' = err /\ now' = now
                ELSE Raise(e) /\ now' = now + DefaultTimeout
    /\ UNCHANGED <<run, app, browser, fs, fs0, results>>

\* print(...); page.wait_for_selector(".grid", timeout=10000)
WaitGrid_Swallow ==
    /\ pc = "wait_grid"
    /\ out' = Append(out, "Waiting for game to load...")
    /\ log' = Append(log, Entry("wait_for_selector", ".grid", 0, app.grid))
    /\ IF app.grid
         THEN \E d \in 0..MaxDelay : now' = now + d
         ELSE now' = now + GridTimeout
    /\ pc' = "sleep"
    /\ UNCHANGED <<run, app, browser, err, fs, fs0, results>>

WaitGrid_ShotOnTimeout ==
    /\ pc = "wait_grid"
    /\ out' = Append(out, "Waiting for game to load...")
    /\ log' = Append(log, Entry("wait_for_selector", ".grid", 0, app.grid))
    /\ IF app.grid
         THEN /\ \E d \in 0..MaxDelay : now' = now + d
              /\ pc' = "sleep"
              /\ err' = err
              /\ fs' = fs
         ELSE /\ now' = now + GridTimeout
              /\ fs' = WriteFile(fs, [path |-> ScreenshotPath, writer |-> run,
                                      full_page |-> FALSE])
              /\ Raise("TimeoutError")
    /\ UNCHANGED <<run, app, browser, fs0, results>>

WaitGrid ==
    /\ pc = "wait_grid"
    /\ out' = Append(out, "Waiting for game to load...")
    /\ log' = Append(log, Entry("wait_for_selector", ".grid", 0, app.grid))
    /\ IF app.grid
         THEN /\ \E d \in 0..MaxDelay : now' = now + d
              /\ pc' = "sleep"
              /\ err' = err
         ELSE /\ now' = now + GridTimeout
              /\ Raise("TimeoutError")
    /\ UNCHANGED <<run, app, browser, fs, fs0, results>>

\* time.sleep(2)
Sleep_UntilTwoSinceClick ==
    /\ pc = "sleep"
    /\ LET clicked == log[Len(log) - 1].t
           left == IF now - clicked >= SettlePause THEN 0
                   ELSE SettlePause - (now - clicked)
       IN  /\ log' = Append(log, Entry("sleep", "", left, TRUE))
           /\ now' = now + left
    /\ pc' = "screenshot"
    /\ UNCHANGED <<run, app, browser, out, err, fs, fs0, results>>

Sleep ==
    /\ pc = "sleep"
    /\ log' = Append(log, Entry("sleep", "", SettlePause, TRUE))
    /\ now' = now + SettlePause
    /\ pc' = "screenshot"
    /\ UNCHANGED <<run, app, browser, out, err, fs, fs0, results>>

\* print(...); page.screenshot(path="verification/game_screenshot.png")
Screenshot_PerRunPath ==
    /\ pc = "screenshot"
    /\ out' = Append(out, "Taking screenshot...")
    /\ log' = Append(log, Entry("screenshot", ScreenshotPath, 0, TRUE))
    /\ fs' = WriteFile(fs, [path |-> IF run = 1 THEN ScreenshotPath
                                     ELSE "verification/game_screenshot_n.png",
                            writer |-> run, full_page |-> FALSE])
    /\ pc' = "close"
    /\ UNCHANGED <<run, app, browser, now, err, fs0, results>>

Screenshot_FullPage ==
    /\ pc = "screenshot"
    /\ out' = Append(out, "Taking screenshot...")
    /\ log' = Append(log, Entry("screenshot", ScreenshotPath, 0, TRUE))
    /\ fs' = WriteFile(fs, [path |-> ScreenshotPath, writer |-> run,
                            full_page |-> TRUE])
    /\ pc' = "close"
    /\ UNCHANGED <<run, app, browser, now, err, fs0, results>>

Screenshot ==
    /\ pc = "screenshot"
    /\ out' = Append(out, "Taking screenshot...")
    /\ log' = Append(log, Entry("screenshot", ScreenshotPath, 0, TRUE))
    /\ fs' = WriteFile(fs, [path |-> ScreenshotPath, writer |-> run,
                            full_page |-> FALSE])
    /\ pc' = "close"
    /\ UNCHANGED <<run, app, browser, now, err, fs0, results>>

\* browser.close(); print("Done.")
Close ==
    /\ pc = "close"
    /\ browser' = "released"
    /\ out' = Append(out, "Done.")
    /\ pc' = "with_exit"
    /\ UNCHANGED <<run, app, log, now, err, fs, fs0, results>>

\* Leaving `with sync_playwright() as p:`, normally or by an error: the
\* driver stops and the browser it launched ends with it; an error goes on
\* to end the process.
WithExit_NoStop ==
    /\ pc = "with_exit"
    /\ pc' = IF err = "none" THEN "done" ELSE "failed"
    /\ results' = Append(results, IF err = "none" THEN "ok" ELSE "failed")
    /\ UNCHANGED <<run, app, browser, log, out, now, err, fs, fs0>>

WithExit ==
    /\ pc = "with_exit"
    /\ browser' = IF browser = "held" THEN "released" ELSE browser
    /\ pc' = IF err = "none" THEN "done" ELSE "failed"
    /\ results' = Append(results, IF err = "none" THEN "ok" ELSE "failed")
    /\ UNCHANGED <<run, app, log, out, now, err, fs, fs0>>

\* One step of a running script.
Step ==
    \/ Launch
    \/ GotoHome
    \/ WaitRecalla
    \/ StartLearning
    \/ WaitGerman
    \/ ClickPlay
    \/ WaitGrid
    \/ Sleep
    \/ Screenshot
    \/ Close
    \/ WithExit

Next == StartRun \/ Step

Spec == Init /\ [][Next]_vars

\* A started script runs on: every call returns or raises (the waits are
\* bounded by their timeouts).  Nothing obliges anyone to start it again.
FairSpec == Spec /\ WF_vars(Step)

\* ------------------------------------------------------------------ claims
\* Positions in log of the calls `op` made with argument `arg`.
Idx(op, arg) == {i \in DOMAIN log : log[i].op = op /\ log[i].arg = arg}

Printed(line) == \E k \in DOMAIN out : out[k] = line

RunEnded == pc \in {"done", "failed"}

ShotFiles == {f \in fs : f.path = ScreenshotPath}

\* The run has got past the home page and past the start step.
AfterStart ==
    /\ \E i \in Idx("wait_for_selector", "text=Recalla") : log[i].ok
    /\ pc # "start_learning"

ReachedTopicsWait ==
    pc = "wait_german" \/ Idx("wait_for_selector", "text=German Words") # {}

\* The application behaves correctly, as C2 lists it.
AppCorrect(a) ==
    /\ a.served /\ a.recalla
    /\ a.german
    /\ GetByRole(a.buttons, "Play") # <<>>
    /\ a.grid

\* C1: on every exit path of verify_game, normal or by an uncaught error
\* raised after the launch, the browser is released: no run ends with the
\* browser still held, and a held browser is eventually released.
C1_BrowserReleased ==
    /\ [](RunEnded => browser = "released")
    /\ (browser = "held") ~> (browser = "released")

\* A run that failed on a timeout after clicking, with its browser released.
C1_Witness ==
    /\ pc = "failed" /\ err = "TimeoutError"
    /\ Idx("click", "Play") # {}
    /\ browser = "released"

\* C2: against an application that behaves correctly (home page shows
\* "Recalla", topic view shows "German Words", a Play button exists, game
\* view shows ".grid") the run completes normally, and at completion the
\* screenshot of this run is at the fixed path.  Every run ends (WithExit is
\* reached from every position), so the claim is stated at the end of a run.
C2_Original ==
    (RunEnded /\ AppCorrect(app)) =>
        /\ pc = "done"
        /\ \E f \in ShotFiles : f.writer = run

\* C3: a wait-for-element step that times out is not caught: it is the last
\* call of the run, the run is on its way out with the TimeoutError, it has
\* printed neither "Taking screenshot..." nor "Done.", it has written no
\* file, and the wait was made once.
C3_TimeoutAborts ==
    \A i \in DOMAIN log :
        (log[i].op = "wait_for_selector" /\ ~log[i].ok) =>
            /\ i = Len(log)
            /\ err = "TimeoutError"
            /\ pc \in {"with_exit", "failed"}
            /\ ~Printed("Taking screenshot...")
            /\ ~Printed("Done.")
            /\ fs = fs0
            /\ \A f \in fs : f.writer # run
            /\ Cardinality(Idx("wait_for_selector", log[i].arg)) = 1

\* A run that ended on the timeout of the wait for ".grid".
C3_Witness ==
    /\ pc = "failed"
    /\ log # <<>>
    /\ log[Len(log)].op = "wait_for_selector"
    /\ log[Len(log)].arg = ".grid"
    /\ ~log[Len(log)].ok

C4_Safety ==
    (app.startCount = 0 /\ AfterStart) =>
        /\ Idx("click", "Start Learning") = {}
        /\ Cardinality(Idx("goto", WelcomeUrl)) = 1
        /\ \A i \in Idx("goto", WelcomeUrl) : log[i].ok
        /\ ReachedTopicsWait

C5_Original == pc = "failed" => ShotFiles = {}

\* C5, amended: a failed run writes nothing; the files on disk after it are
\* the files that were there when it started.
C5_FailedRunWritesNothing ==
    pc = "failed" => (fs = fs0 /\ \A f \in fs : f.writer # run)

\* A failed run after a successful one: the earlier screenshot is still there.
C5_Witness ==
    /\ pc = "failed"
    /\ \E f \in ShotFiles : f.writer < run

\* C6: after one or more successful runs (and no failed one) exactly one
\* file exists, at the fixed path, and it is the capture of the last run.
C6_OneFile ==
    (pc = "done" /\ \A k \in DOMAIN results : results[k] = "ok") =>
        /\ Cardinality(fs) = 1
        /\ \A f \in fs : f.path = ScreenshotPath /\ f.writer = run

\* Two successful runs in a row.
C6_Witness ==
    /\ pc = "done"
    /\ Len(results) >= 2
    /\ \A k \in DOMAIN results : results[k] = "ok"

C8_SettlePause ==
    \A i \in Idx("screenshot", ScreenshotPath) :
        /\ i >= 3
        /\ log[i - 2].op = "wait_for_selector"
        /\ log[i - 2].arg = ".grid"
        /\ log[i - 2].ok
        /\ log[i - 1].op = "sleep"
        /\ log[i - 1].n = SettlePause
        /\ log[i - 1].t >= log[i - 2].t
        /\ log[i].t - log[i - 1].t = SettlePause

\* A screenshot taken after a marker that took MaxDelay seconds to appear.
C8_Witness ==
    \E i \in Idx("screenshot", ScreenshotPath) :
        log[i - 1].t - log[i - 2].t = MaxDelay

\* C9 as claimed: the persisted screenshot is a full-page capture.
C9_Original == \A f \in ShotFiles : f.full_page

\* C9, amended: the persisted screenshot is a capture of the viewport
\* (page.screenshot is called without full_page=True).
C9_ViewportCapture == \A f \in ShotFiles : ~f.full_page

\* A successful run with its screenshot on disk.
C9_Witness ==
    /\ pc = "done"
    /\ \E f \in ShotFiles : f.writer = run

\* C10: with one or several "Start Learning" elements on the home page the
\* run clicks the call-to-action, does not navigate to /Recalla/welcome, and
\* reaches the wait for "German Words".
C10_Original ==
    (app.startCount >= 1 /\ AfterStart) =>
        /\ \E i \in Idx("click", "Start Learning") : log[i].ok
        /\ Idx("goto", WelcomeUrl) = {}
        /\ ReachedTopicsWait

====
